---- MODULE Spec2Model ----
(***************************************************************************)
(* MeshCore test-log tooling: the serial test controller                   *)
(* (tools/mesh_test_app/main.py) and the two batch analysers               *)
(* (tools/mesh_test_app/analyze_logs.py,                                   *)
(* examples/companion_radio/analyze_test_log.py).                          *)
(*                                                                         *)
(* Text is modelled as TLA+ strings, handled character by character with   *)
(* Len, SubSeq and \o, so that splitting, stripping, int() and the regular *)
(* expressions do what the Python code does on the same characters.        *)
(***************************************************************************)
EXTENDS Integers, Sequences, FiniteSets, TLC

(***************************************************************************)
(* Python string primitives                                                *)
(***************************************************************************)

\* s[i] for a 1-based index
Ch(s, i) == SubSeq(s, i, i)

\* the characters str.strip() and str.split() treat as whitespace
Whitespace == {" ", "\t", "\n", "\r"}

Digits == {"0", "1", "2", "3", "4", "5", "6", "7", "8", "9"}

\* the class [A-F0-9] of the regular expressions
HexUpper == Digits \cup {"A", "B", "C", "D", "E", "F"}

\* str.startswith
StartsWith(s, p) == Len(s) >= Len(p) /\ SubSeq(s, 1, Len(p)) = p

\* the "in" operator on strings: sub in s
Contains(s, sub) ==
    \E i \in 1..(Len(s) - Len(sub) + 1) : SubSeq(s, i, i + Len(sub) - 1) = sub

\* str.find(c) + 1 for a one-character c: the first index of c in s, 0 if none
Find(s, c) ==
    IF \E i \in 1..Len(s) : Ch(s, i) = c
    THEN CHOOSE i \in 1..Len(s) :
             Ch(s, i) = c /\ \A j \in 1..(i - 1) : Ch(s, j) # c
    ELSE 0

\* str.strip()
Strip(s) ==
    LET keep == {i \in 1..Len(s) : Ch(s, i) \notin Whitespace}
    IN  IF keep = {} THEN ""
        ELSE LET lo == CHOOSE i \in keep : \A j \in keep : i <= j
                 hi == CHOOSE i \in keep : \A j \in keep : i >= j
             IN  SubSeq(s, lo, hi)

\* str.split(sep) for a one-character sep: always at least one field
RECURSIVE SplitOn(_, _)
SplitOn(s, sep) ==
    LET i == Find(s, sep)
    IN  IF i = 0 THEN <<s>>
        ELSE <<SubSeq(s, 1, i - 1)>> \o SplitOn(SubSeq(s, i + 1, Len(s)), sep)

\* str.split(sep, 1): the text before the first sep, and the text after it
SplitFirst(s, sep) ==
    LET i == Find(s, sep)
    IN  <<SubSeq(s, 1, i - 1), SubSeq(s, i + 1, Len(s))>>

\* str.split() without arguments: the maximal runs of non-whitespace
RECURSIVE SplitWs(_)
SplitWs(s) ==
    LET t == Strip(s)
        ws == {i \in 1..Len(t) : Ch(t, i) \in Whitespace}
    IN  IF t = "" THEN <<>>
        ELSE IF ws = {} THEN <<t>>
        ELSE LET i == CHOOSE k \in ws : \A j \in ws : k <= j
             IN  <<SubSeq(t, 1, i - 1)>> \o SplitWs(SubSeq(t, i + 1, Len(t)))

DigitVal(c) ==
    CASE c = "0" -> 0 [] c = "1" -> 1 [] c = "2" -> 2 [] c = "3" -> 3
      [] c = "4" -> 4 [] c = "5" -> 5 [] c = "6" -> 6 [] c = "7" -> 7
      [] c = "8" -> 8 [] c = "9" -> 9

AllDigits(s) == Len(s) >= 1 /\ \A i \in 1..Len(s) : Ch(s, i) \in Digits

RECURSIVE DecVal(_)
DecVal(s) ==
    IF s = "" THEN 0
    ELSE 10 * DecVal(SubSeq(s, 1, Len(s) - 1)) + DigitVal(Ch(s, Len(s)))

\* whether int(s) returns (it raises ValueError otherwise): surrounding
\* whitespace, an optional sign, then decimal digits
IntOk(s) ==
    LET t == Strip(s)
    IN  IF t # "" /\ Ch(t, 1) \in {"-", "+"}
        THEN AllDigits(SubSeq(t, 2, Len(t)))
        ELSE AllDigits(t)

\* int(s), for IntOk(s)
IntVal(s) ==
    LET t == Strip(s)
    IN  IF Ch(t, 1) = "-" THEN 0 - DecVal(SubSeq(t, 2, Len(t)))
        ELSE IF Ch(t, 1) = "+" THEN DecVal(SubSeq(t, 2, Len(t)))
        ELSE DecVal(t)

(***************************************************************************)
(* re.match for the patterns of main.py: a pattern is a sequence of items, *)
(* each a character class repeated between min and max times (max = -1:    *)
(* unbounded).  Ends is the set of positions at which a match of           *)
(* items[k..] starting at position j of s can end.                         *)
(***************************************************************************)
One(cls) == [cls |-> cls, min |-> 1, max |-> 1]
Opt(cls) == [cls |-> cls, min |-> 0, max |-> 1]
Plus(cls) == [cls |-> cls, min |-> 1, max |-> -1]

\* how many characters of s from position j on lie in cls, consecutively
RECURSIVE Run(_, _, _)
Run(s, j, cls) ==
    IF j <= Len(s) /\ Ch(s, j) \in cls THEN 1 + Run(s, j + 1, cls) ELSE 0

RECURSIVE Ends(_, _, _, _)
Ends(items, k, s, j) ==
    IF k > Len(items) THEN {j}
    ELSE LET it == items[k]
             avail == Run(s, j, it.cls)
             top == IF it.max = -1 \/ it.max > avail THEN avail ELSE it.max
         IN  UNION {Ends(items, k + 1, s, j + n) : n \in it.min..top}

\* re.match(pattern, s) for a pattern ending in $, on a line without "\n"
FullMatch(items, s) == (Len(s) + 1) \in Ends(items, 1, s, 1)

\* r"^([A-F0-9]{4}),(\d+),(\d+),(\d+),(-?\d+),(-?\d+),(\d+)$"
EntryPattern ==
    <<One(HexUpper), One(HexUpper), One(HexUpper), One(HexUpper), One({","}),
      Plus(Digits), One({","}), Plus(Digits), One({","}), Plus(Digits),
      One({","}), Opt({"-"}), Plus(Digits), One({","}), Opt({"-"}),
      Plus(Digits), One({","}), Plus(Digits)>>

Star(cls) == [cls |-> cls, min |-> 0, max |-> -1]

\* the items matching the literal text p
Lit(p) == [i \in 1..Len(p) |-> One({Ch(p, i)})]

\* re.match(pattern, s) for a pattern without $: some prefix of s matches
PrefixMatch(items, s) == Ends(items, 1, s, 1) # {}

\* \w of the regular expressions (ASCII)
WordChars ==
    Digits \cup {"_"} \cup
    {"A", "B", "C", "D", "E", "F", "G", "H", "I", "J", "K", "L", "M", "N", "O",
     "P", "Q", "R", "S", "T", "U", "V", "W", "X", "Y", "Z", "a", "b", "c", "d",
     "e", "f", "g", "h", "i", "j", "k", "l", "m", "n", "o", "p", "q", "r", "s",
     "t", "u", "v", "w", "x", "y", "z"}

\* r"TESTSTATUS\s+([A-F0-9]+)\s+seq=(\d+)\s+log=(\d+)"
StatusPattern ==
    Lit("TESTSTATUS") \o <<Plus(Whitespace), Plus(HexUpper), Plus(Whitespace)>>
      \o Lit("seq=") \o <<Plus(Digits), Plus(Whitespace)>> \o Lit("log=")
      \o <<Plus(Digits)>>

\* r"Entries:\s*(\d+)\s*/\s*(\d+)\s*\(([\d.]+)%"
EntriesPattern ==
    Lit("Entries:") \o <<Star(Whitespace), Plus(Digits), Star(Whitespace),
                         One({"/"}), Star(Whitespace), Plus(Digits),
                         Star(Whitespace), One({"("}),
                         Plus(Digits \cup {"."}), One({"%"})>>

\* r"Remaining:\s*(\d+)\s*entries"
RemainingPattern ==
    Lit("Remaining:") \o <<Star(Whitespace), Plus(Digits), Star(Whitespace)>>
      \o Lit("entries")

\* r"Circular Mode:\s*(\w+)"
CircularPattern == Lit("Circular Mode:") \o <<Star(Whitespace), Plus(WordChars)>>

\* group 1 of StatusPattern: the run of [A-F0-9] after the first whitespace run
StatusId(line) ==
    LET a == Len("TESTSTATUS") + 1 + Run(line, Len("TESTSTATUS") + 1, Whitespace)
    IN  SubSeq(line, a, a + Run(line, a, HexUpper) - 1)

(***************************************************************************)
(* MeshTestApp._parse_line.  st is the part of the application state the   *)
(* handler writes: test_logs and the device-id label info_labels["id"].    *)
(* The other labels (buffer usage, radio configuration) are display only   *)
(* and are not part of the state; the branches that set them are kept for  *)
(* their early returns.                                                    *)
(***************************************************************************)

\* the dictionary built from the groups of EntryPattern
EntryOf(line) ==
    LET f == SplitOn(line, ",")
    IN  [device_id |-> f[1], seq |-> f[2], tx_time |-> f[3], rx_time |-> f[4],
         snr |-> f[5], rssi |-> f[6], path_len |-> f[7]]

\* "TESTLOG " header that is not the end sentinel: a new dump starts
IsDumpStart(line) == StartsWith(line, "TESTLOG ") /\ ~StartsWith(line, "TESTLOG_END")

ParseLine(raw, st) ==
    LET line == Strip(raw)
    IN  IF line = "" THEN st
        ELSE IF PrefixMatch(StatusPattern, line)
             THEN [st EXCEPT !.info_id = StatusId(line)]
        ELSE IF PrefixMatch(EntriesPattern, line) THEN st
        ELSE IF PrefixMatch(RemainingPattern, line) THEN st
        ELSE IF PrefixMatch(CircularPattern, line) THEN st
        ELSE IF IsDumpStart(line) THEN [st EXCEPT !.test_logs = <<>>]
        ELSE IF FullMatch(EntryPattern, line)
             THEN [st EXCEPT !.test_logs = Append(@, EntryOf(line))]
        ELSE st

(***************************************************************************)
(* The streaming application: SerialHandler and MeshTestApp                *)
(***************************************************************************)
VARIABLES
    device_out,   \* the bursts of text the device has still to write
    in_waiting,   \* text that has reached the open port and has not been read
    read_queue,   \* SerialHandler.read_queue: the chunks read and not yet consumed
    running,      \* SerialHandler.running
    serial_open,  \* SerialHandler.serial_port is not None (is_connected())
    line_buffer,  \* MeshTestApp.line_buffer
    test_logs,    \* MeshTestApp.test_logs
    info_id,      \* MeshTestApp.info_labels["id"] text
    updating,     \* MeshTestApp._update_serial is inside its drain loop
    closed,       \* the window has been destroyed (on_closing ran)
    events,       \* history: the lines handed to _parse_line and the Dump commands
    chunks,       \* history: the chunks _update_serial took from read_queue
    log_buffer,   \* MeshTestApp.log_buffer
    exported,     \* history: the files each run of _export_log wrote
    origin        \* history: for each chunk the reader enqueued, the number of the
                  \* connection (1, 2, ...) it was read in

streamVars ==
    <<device_out, in_waiting, read_queue, running, serial_open, line_buffer,
      test_logs, info_id, updating, closed, events, chunks, log_buffer, exported,
      origin>>

VARIABLES
    tool,         \* which program runs: "analyze_test_log" or "analyze_logs"
    argv,         \* sys.argv[1:], as sources
    idx,          \* the index in argv of the source the loading loop is at
    pc,           \* "load", "check", "report", "done", "exit1", "crashed"
    logs,         \* analyze_test_log: logs; analyze_logs: what analyze_csv returned
    all_data,     \* analyze_logs: all_data, receiver id -> entries
    all_senders,  \* analyze_logs: all_senders
    warnings,     \* the indexes of the sources a warning was printed for
    report,       \* what the analysis computed
    results_csv   \* analyze_test_log: the text of the file export_csv wrote

batchVars ==
    <<tool, argv, idx, pc, logs, all_data, all_senders, warnings, report, results_csv>>

vars == <<streamVars, batchVars>>

\* the longest read_queue the model explores (queue.Queue() is unbounded)
MaxQueue == 2

\* the most Dump commands the model explores
MaxDumps == 1

\* the most bursts a stream is cut into
MaxBursts == 3

\* the most entries of log_buffer and of each history the model keeps
MaxKept == 12

\* the most connections the model explores
MaxConnects == 2

\* the most runs of _export_log the model explores
MaxExports == 2

\* the concatenation of a sequence of strings (f.writelines, "".join)
RECURSIVE Joined(_)
Joined(q) == IF q = <<>> THEN "" ELSE Head(q) \o Joined(Tail(q))

\* str() of an integer, as the f-strings and csv.writer format it
DigitStr(d) == SubSeq("0123456789", d + 1, d + 1)

RECURSIVE NatStr(_)
NatStr(n) == IF n < 10 THEN DigitStr(n) ELSE NatStr(n \div 10) \o DigitStr(n % 10)

IntStr(n) == IF n < 0 THEN "-" \o NatStr(-n) ELSE NatStr(n)

\* _log_message: the entry appended to log_buffer.  The clock digits of the
\* "[%H:%M:%S]" prefix are left out, and the message texts are abbreviated
LogMessage(msg) == "[] " \o msg \o "\n"

\* _send_cli_cmd: what it logs, connected or not
SendCliCmdMessage(cmd) ==
    IF serial_open THEN LogMessage(">>> " \o cmd)
    ELSE LogMessage("[warn] connect first")

LineEvent(text) == [kind |-> "line", text |-> text]
DumpEvent == [kind |-> "dump", text |-> ""]

\* the loop "while '\n' in self.line_buffer" of _update_serial: r holds the buffer,
\* the state _parse_line writes, and the lines handed to _parse_line
RECURSIVE SplitLoop(_)
SplitLoop(r) ==
    IF Contains(r.buf, "\n")
    THEN LET p == SplitFirst(r.buf, "\n")
         IN  SplitLoop([buf |-> p[2],
                        st |-> ParseLine(p[1], r.st),
                        lines |-> Append(r.lines, p[1])])
    ELSE r

\* a plausible slip: the partial line left by the previous chunk is forgotten
IngestNoCarry(buf, st, data) ==
    SplitLoop([buf |-> data, st |-> st, lines |-> <<>>])

\* the body of the drain loop of _update_serial for one chunk
Ingest(buf, st, data) == SplitLoop([buf |-> buf \o data, st |-> st, lines |-> <<>>])

AppState == [test_logs |-> test_logs, info_id |-> info_id]

\* MeshTestApp.__init__ and SerialHandler.__init__
AppInit ==
    /\ in_waiting = ""
    /\ read_queue = <<>>
    /\ running = FALSE
    /\ serial_open = FALSE
    /\ line_buffer = ""
    /\ test_logs = <<>>
    /\ info_id = "--"
    /\ updating = FALSE
    /\ closed = FALSE
    /\ events = <<>>
    /\ chunks = <<>>
    /\ log_buffer = <<>>
    /\ exported = <<>>
    /\ origin = <<>>

\* the connections made so far, counted by their messages in log_buffer
NumConnects ==
    Cardinality({i \in 1..Len(log_buffer) :
                    log_buffer[i] = LogMessage("[sys] connected")})

\* _toggle_connect when not connected: SerialHandler.connect succeeds
Connect ==
    /\ ~closed /\ ~updating /\ ~serial_open
    /\ NumConnects < MaxConnects
    /\ serial_open' = TRUE
    /\ running' = TRUE
    /\ log_buffer' = Append(log_buffer, LogMessage("[sys] connected"))
    /\ UNCHANGED <<device_out, in_waiting, read_queue, line_buffer, test_logs,
                   info_id, updating, closed, events, chunks, exported, origin>>
    /\ UNCHANGED batchVars

\* the device writes its next burst; it reaches the port only while it is open
DeviceWrite ==
    /\ serial_open
    /\ device_out # <<>>
    /\ in_waiting' = in_waiting \o Head(device_out)
    /\ device_out' = Tail(device_out)
    /\ UNCHANGED <<read_queue, running, serial_open, line_buffer, test_logs, info_id,
                   updating, closed, events, chunks, log_buffer, exported, origin>>
    /\ UNCHANGED batchVars

\* SerialHandler.disconnect: the reader is stopped and the port closed (what was
\* waiting unread in the port is gone); read_queue is not touched
DisconnectEffect ==
    /\ running' = FALSE
    /\ serial_open' = FALSE
    /\ in_waiting' = ""
    /\ UNCHANGED <<device_out, read_queue>>

\* _toggle_connect when connected
Disconnect ==
    /\ ~closed /\ ~updating /\ serial_open
    /\ DisconnectEffect
    /\ log_buffer' = Append(log_buffer, LogMessage("[sys] disconnected"))
    /\ UNCHANGED <<line_buffer, test_logs, info_id, updating, closed, events, chunks,
                   exported, origin>>
    /\ UNCHANGED batchVars

\* log_buffer and the histories grow with every chunk, without bound when the
\* device never stops writing: the model keeps their first MaxKept entries
Kept(h, new) == SubSeq(h \o new, 1, IF Len(h \o new) < MaxKept THEN Len(h \o new) ELSE MaxKept)

\* a plausible slip: the newest chunk is handed over first
PutFirst(q, data) == <<data>> \o q

\* read_queue.put(data): the chunk joins the end of the FIFO queue
Put(q, data) == Append(q, data)

\* one iteration of SerialHandler._read_loop that finds in_waiting > 0: all that
\* is waiting is read and enqueued
ReadLoop ==
    /\ running /\ serial_open
    /\ in_waiting # ""
    /\ Len(read_queue) < MaxQueue
    /\ read_queue' = Put(read_queue, in_waiting)
    /\ in_waiting' = ""
    /\ origin' = Kept(origin, <<NumConnects>>)
    /\ UNCHANGED <<device_out, running, serial_open, line_buffer, test_logs, info_id,
                   updating, closed, events, chunks, log_buffer, exported>>
    /\ UNCHANGED batchVars

\* _update_serial, one pass of "while True": get_nowait returns a chunk
UpdateSerialGet ==
    /\ ~closed
    /\ read_queue # <<>>
    /\ LET data == Head(read_queue)
           r == Ingest(line_buffer, AppState, data)
       IN  /\ read_queue' = Tail(read_queue)
           /\ line_buffer' = r.buf
           /\ test_logs' = r.st.test_logs
           /\ info_id' = r.st.info_id
           /\ events' = Kept(events, [i \in 1..Len(r.lines) |-> LineEvent(r.lines[i])])
           /\ chunks' = Kept(chunks, <<data>>)
           /\ log_buffer' = Kept(log_buffer, <<data>>)
    /\ updating' = TRUE
    /\ UNCHANGED <<device_out, in_waiting, running, serial_open, closed, exported, origin>>
    /\ UNCHANGED batchVars

\* _update_serial: get_nowait raises queue.Empty, the handler re-schedules itself
\* with after(50, ...) and returns
UpdateSerialEmpty ==
    /\ ~closed
    /\ read_queue = <<>>
    /\ updating
    /\ updating' = FALSE
    /\ UNCHANGED <<device_out, in_waiting, read_queue, running, serial_open,
                   line_buffer, test_logs, info_id, closed, events, chunks,
                   log_buffer, exported, origin>>
    /\ UNCHANGED batchVars

NumDumps == Cardinality({i \in 1..Len(events) : events[i].kind = "dump"})

\* a plausible slip: the Dump command is sent without clearing test_logs
CmdLogDumpNoClear ==
    /\ ~closed /\ ~updating
    /\ NumDumps < MaxDumps
    /\ events' = Append(events, DumpEvent)
    /\ log_buffer' = Append(log_buffer, SendCliCmdMessage("test dump"))
    /\ UNCHANGED <<device_out, in_waiting, read_queue, running, serial_open,
                   line_buffer, test_logs, info_id, updating, closed, chunks, exported, origin>>
    /\ UNCHANGED batchVars

\* _cmd_log_dump: test_logs is cleared, then "test dump" is sent if connected
CmdLogDump ==
    /\ ~closed /\ ~updating
    /\ NumDumps < MaxDumps
    /\ test_logs' = <<>>
    /\ events' = Append(events, DumpEvent)
    /\ log_buffer' = Append(log_buffer, SendCliCmdMessage("test dump"))
    /\ UNCHANGED <<device_out, in_waiting, read_queue, running, serial_open,
                   line_buffer, info_id, updating, closed, chunks, exported, origin>>
    /\ UNCHANGED batchVars

\* on_closing: disconnect, then destroy the window; no _update_serial runs after
OnClosing ==
    /\ ~closed /\ ~updating
    /\ DisconnectEffect
    /\ closed' = TRUE
    /\ UNCHANGED <<line_buffer, test_logs, info_id, updating, events, chunks,
                   log_buffer, exported, origin>>
    /\ UNCHANGED batchVars

\* one data row of the CSV file of _export_log
ExportRow(entry) ==
    LET tx == IntVal(entry.tx_time)
        rx == IntVal(entry.rx_time)
        delay == IF tx > 0 /\ rx > 0 THEN rx - tx ELSE 0
    IN  entry.device_id \o "," \o entry.seq \o "," \o entry.tx_time \o ","
          \o entry.rx_time \o "," \o IntStr(delay) \o "," \o entry.snr \o ","
          \o entry.rssi \o "," \o entry.path_len \o "\n"

\* the CSV file _export_log writes.  The digits of the "# Export Time:" line
\* (the clock) are left out
ExportCsvText(receiver_id, tl) ==
    "# MeshCore Network Test Log\n"
      \o "# Receiver Device ID: " \o receiver_id \o "\n"
      \o "# Export Time: \n"
      \o "# Total Entries: " \o IntStr(Len(tl)) \o "\n"
      \o "#\n"
      \o "sender_id,seq,tx_time,rx_time,delay_sec,snr,rssi,path_len\n"
      \o Joined([i \in 1..Len(tl) |-> ExportRow(tl[i])])

\* _export_log, both files written without an I/O error: the CSV file when
\* test_logs is not empty, then the raw log; each step logs a message, and the
\* first message is in log_buffer when the raw log is written
ExportLog ==
    /\ ~closed /\ ~updating
    /\ Len(exported) < MaxExports
    /\ LET receiver_id == IF info_id = "--" THEN "UNKNOWN" ELSE info_id
           csv == IF test_logs # <<>> THEN ExportCsvText(receiver_id, test_logs) ELSE ""
           first ==
               IF test_logs # <<>>
               THEN LogMessage("[sys] exported mesh_test_" \o receiver_id \o ".csv ("
                               \o IntStr(Len(test_logs)) \o ")")
               ELSE LogMessage("[warn] no test log to export")
           buf == Append(log_buffer, first)
       IN  /\ exported' = Append(exported, [csv |-> csv,
                                            raw |-> Joined(buf),
                                            receiver_id |-> receiver_id,
                                            test_logs |-> test_logs,
                                            log_len |-> Len(log_buffer),
                                            events_at |-> Len(events),
                                            chunks_at |-> Len(chunks)])
           /\ log_buffer' =
                  Append(buf, LogMessage("[sys] exported mesh_raw_" \o receiver_id
                                         \o ".txt"))
    /\ UNCHANGED <<device_out, in_waiting, read_queue, running, serial_open,
                   line_buffer, test_logs, info_id, updating, closed, events, chunks,
                   origin>>
    /\ UNCHANGED batchVars

(***************************************************************************)
(* The batch analysers.  A source is one command-line argument:            *)
(* kind = "missing" (no such file), "unreadable" (the path exists but      *)
(* open() or the read raises: a directory, no permission, undecodable      *)
(* bytes) or "ok" with the file's text.  None is modelled as "": the code  *)
(* only tests the ids for truth.                                           *)
(***************************************************************************)

\* the most sources on one command line
MaxSources == 2

\* "for line in f": the lines of a text, without their line ends
FileLines(text) ==
    LET parts == SplitOn(text, "\n")
    IN  IF parts[Len(parts)] = "" THEN SubSeq(parts, 1, Len(parts) - 1) ELSE parts

\* a plausible slip: the first id of a file is kept
KeepFirstId(current, declared) == IF current = "" THEN declared ELSE current

\* "device_id = parts[1]" of parse_log_file
HeaderDeviceId(current, declared) == declared

\* one pass of the loop of parse_log_file on the stripped line
ParseLogStep(line, acc) ==
    IF StartsWith(line, "TESTLOG ")
    THEN LET parts == SplitWs(line)
         IN  IF Len(parts) >= 4
             THEN IF IntOk(parts[3]) /\ IntOk(parts[4])
                  THEN [acc EXCEPT !.device_id = HeaderDeviceId(@, parts[2]),
                                   !.seq_num = IntVal(parts[3]),
                                   !.log_count = IntVal(parts[4])]
                  ELSE [acc EXCEPT !.raised = TRUE]
             ELSE acc
    ELSE IF StartsWith(line, "TESTLOG_END") THEN [acc EXCEPT !.ended = TRUE]
    ELSE IF Contains(line, ",") /\ Len(line) > 20
    THEN LET parts == SplitOn(line, ",")
         IN  IF Len(parts) >= 6
             THEN IF \A k \in 2..6 : IntOk(parts[k])
                  THEN [acc EXCEPT !.entries =
                           Append(@, [sender_id |-> parts[1],
                                      seq |-> IntVal(parts[2]),
                                      timestamp |-> IntVal(parts[3]),
                                      snr |-> <<IntVal(parts[4]), 4>>,
                                      rssi |-> IntVal(parts[5]),
                                      path_len |-> IntVal(parts[6])])]
                  ELSE [acc EXCEPT !.raised = TRUE]
             ELSE acc
    ELSE acc

RECURSIVE ParseLogLines(_, _, _)
ParseLogLines(lines, i, acc) ==
    IF i > Len(lines) \/ acc.raised \/ acc.ended THEN acc
    ELSE ParseLogLines(lines, i + 1, ParseLogStep(Strip(lines[i]), acc))

\* parse_log_file on a file that opens: the dictionary it returns, and whether
\* an int() raised ValueError instead.  snr is the pair <<numerator, denominator>>
ParseLogFile(text) ==
    ParseLogLines(FileLines(text), 1,
                  [device_id |-> "", seq_num |-> 0, log_count |-> 0,
                   entries |-> <<>>, raised |-> FALSE, ended |-> FALSE])

\* one pass of the loop of analyze_csv on the line as read
AnalyzeCsvStep(line, acc) ==
    IF StartsWith(line, "# Receiver Device ID:")
    THEN [acc EXCEPT !.receiver_id = Strip(SplitOn(line, ":")[2])]
    ELSE IF ~StartsWith(line, "#") /\ Strip(line) # ""
    THEN LET parts == SplitOn(Strip(line), ",")
         IN  IF Len(parts) >= 7 /\ parts[1] # "sender_id"
             THEN IF /\ IntOk(parts[2])
                     /\ (Len(parts) > 7 => IntOk(parts[8]))
                     /\ IntOk(parts[6])
                     /\ IntOk(parts[7])
                  THEN [acc EXCEPT !.entries =
                           Append(@, [sender |-> parts[1],
                                      seq |-> IntVal(parts[2]),
                                      path_len |-> IF Len(parts) > 7
                                                   THEN IntVal(parts[8]) ELSE 0,
                                      snr |-> IntVal(parts[6]),
                                      rssi |-> IntVal(parts[7])])]
                  ELSE [acc EXCEPT !.raised = TRUE]
             ELSE acc
    ELSE acc

RECURSIVE AnalyzeCsvLines(_, _, _)
AnalyzeCsvLines(lines, i, acc) ==
    IF i > Len(lines) \/ acc.raised THEN acc
    ELSE AnalyzeCsvLines(lines, i + 1, AnalyzeCsvStep(lines[i], acc))

\* analyze_csv on a file that opens: (receiver_id, entries), or raised
AnalyzeCsv(text) ==
    AnalyzeCsvLines(FileLines(text), 1,
                    [receiver_id |-> "", entries |-> <<>>, raised |-> FALSE])

RECURSIVE SumOf(_, _)
SumOf(f, S) ==
    IF S = {} THEN 0
    ELSE LET x == CHOOSE y \in S : TRUE IN f[x] + SumOf(f, S \ {x})

Max(S) == CHOOSE x \in S : \A y \in S : x >= y

\* a plausible slip: the self-pair test is missing
SkipNoPair(sender, receiver) == FALSE

\* whether the pair (sender, receiver) is skipped by the loss loops
SkipPair(sender, receiver) == sender = receiver

\* analyze_network: the device set, the send counts, the receive matrix and the
\* loss loop.  rows holds every pair that entered the loss computation
AnalyzeNetwork(ls) ==
    LET K == 1..Len(ls)
        withId == {k \in K : ls[k].device_id # ""}
        all_devices ==
            {ls[k].device_id : k \in withId} \cup
            UNION {{ls[k].entries[i].sender_id : i \in 1..Len(ls[k].entries)} : k \in K}
        total_sent ==
            [d \in {ls[k].device_id : k \in withId} |->
                ls[Max({k \in withId : ls[k].device_id = d})].seq_num]
        recv(sender, receiver) ==
            SumOf([k \in K |->
                      IF k \in withId /\ ls[k].device_id = receiver
                      THEN Cardinality({i \in 1..Len(ls[k].entries) :
                                           ls[k].entries[i].sender_id = sender})
                      ELSE 0], K)
        sent(sender) == IF sender \in DOMAIN total_sent THEN total_sent[sender] ELSE 0
        pairs == {p \in all_devices \X all_devices :
                     sent(p[1]) # 0 /\ ~SkipPair(p[1], p[2])}
        expected == [p \in pairs |-> sent(p[1])]
        received == [p \in pairs |-> recv(p[1], p[2])]
    IN  [all_devices |-> all_devices,
         total_sent |-> total_sent,
         recv_matrix |-> [p \in all_devices \X all_devices |-> recv(p[1], p[2])],
         rows |-> {[sender |-> p[1], receiver |-> p[2], expected |-> expected[p],
                    received |-> received[p]] : p \in pairs},
         total_expected |-> SumOf(expected, pairs),
         total_received |-> SumOf(received, pairs)]

\* the characters in the order of their code points (sorted() of strings)
AsciiOrder ==
    "\t\n\r !#$%&()*+,-./0123456789:;<=>?@ABCDEFGHIJKLMNOPQRSTUVWXYZ[]^_"
      \o "abcdefghijklmnopqrstuvwxyz{|}~"

Rank(c) == CHOOSE i \in 1..Len(AsciiOrder) : SubSeq(AsciiOrder, i, i) = c

RECURSIVE StrLess(_, _)
StrLess(a, b) ==
    IF a = "" THEN b # ""
    ELSE IF b = "" THEN FALSE
    ELSE IF SubSeq(a, 1, 1) = SubSeq(b, 1, 1)
         THEN StrLess(SubSeq(a, 2, Len(a)), SubSeq(b, 2, Len(b)))
         ELSE Rank(SubSeq(a, 1, 1)) < Rank(SubSeq(b, 1, 1))

\* sorted(S) for a set of strings
RECURSIVE Sorted(_)
Sorted(S) ==
    IF S = {} THEN <<>>
    ELSE LET m == CHOOSE x \in S : \A y \in S \ {x} : StrLess(x, y)
         IN  <<m>> \o Sorted(S \ {m})

\* str() of the float n / 4.0, as csv.writer writes it
FloatStr(snr) ==
    LET n == snr[1]
        a == IF n < 0 THEN -n ELSE n
        frac == <<"0", "25", "5", "75">>[(a % 4) + 1]
    IN  (IF n < 0 THEN "-" ELSE "") \o NatStr(a \div 4) \o "." \o frac

\* csv.writer.writerow of fields that need no quoting
WriteRow(fields) ==
    (IF fields = <<>> THEN ""
     ELSE Head(fields) \o Joined([i \in 1..(Len(fields) - 1) |-> "," \o fields[i + 1]]))
      \o "\r\n"

\* the name of the file given as argument idx
SourceName(i) == "device_" \o IntStr(i) \o ".log"

\* export_csv: the text written to test_results.csv.  The three title rows,
\* which are Chinese text without a comma, are abbreviated
ExportCsv(ls, net) ==
    LET devs == Sorted(net.all_devices)
        withId == SelectSeq([k \in 1..Len(ls) |-> k], LAMBDA k : ls[k].device_id # "")
        cell(sender, receiver) ==
            IF sender = receiver THEN "-"
            ELSE IntStr(net.recv_matrix[<<sender, receiver>>])
        entryRows(k) ==
            Joined([i \in 1..Len(ls[k].entries) |->
                       LET e == ls[k].entries[i]
                       IN  WriteRow(<<ls[k].device_id, e.sender_id, IntStr(e.seq),
                                      IntStr(e.timestamp), FloatStr(e.snr),
                                      IntStr(e.rssi), IntStr(e.path_len)>>)])
    IN  WriteRow(<<"# devices">>)
          \o WriteRow(<<"Device ID", "Sent Packets", "Source File">>)
          \o Joined([j \in 1..Len(withId) |->
                        WriteRow(<<ls[withId[j]].device_id,
                                   IntStr(ls[withId[j]].seq_num),
                                   SourceName(ls[withId[j]].source_file)>>)])
          \o WriteRow(<<>>)
          \o WriteRow(<<"# matrix">>)
          \o WriteRow(<<"Sender">> \o devs)
          \o Joined([i \in 1..Len(devs) |->
                        WriteRow(<<devs[i]>> \o [j \in 1..Len(devs) |->
                                                    cell(devs[i], devs[j])])])
          \o WriteRow(<<>>)
          \o WriteRow(<<"# entries">>)
          \o WriteRow(<<"Receiver", "Sender", "Seq", "Timestamp", "SNR", "RSSI",
                         "PathLen">>)
          \o Joined([k \in 1..Len(ls) |-> entryRows(k)])

\* a plausible slip: the largest sequence number is taken as the count
ExpectedIsMaxSeq(m) == m

\* "expected = max_seq.get(sender, 0) + 1": sequence numbers start at 0
ExpectedFromMaxSeq(m) == m + 1

\* rssi_ranges of analyze_logs.main, with the labels in English
RssiRanges ==
    <<[threshold |-> -70, label |-> "excellent"], [threshold |-> -85, label |-> "good"],
      [threshold |-> -100, label |-> "fair"], [threshold |-> -120, label |-> "poor"]>>

RssiLabels == {RssiRanges[i].label : i \in 1..Len(RssiRanges)}

\* a plausible slip: the "break" is missing, every threshold reached is counted
BandsNoBreak(rssi) ==
    {RssiRanges[i].label : i \in {j \in 1..Len(RssiRanges) : rssi >= RssiRanges[j].threshold}}

\* the bands one record is counted in: the first threshold it reaches, then break
BandsOf(rssi) ==
    LET hit == {j \in 1..Len(RssiRanges) : rssi >= RssiRanges[j].threshold}
    IN  IF hit = {} THEN {}
        ELSE {RssiRanges[CHOOSE j \in hit : \A k \in hit : j <= k].label}

\* the report part of analyze_logs.main: max_seq, the loss loop and the
\* distributions
AnalyzeLogsReport(data, senders) ==
    LET R == DOMAIN data
        seqsOf(sender) ==
            UNION {{data[r][i].seq : i \in {j \in 1..Len(data[r]) :
                                              data[r][j].sender = sender}} : r \in R}
        seen == UNION {{data[r][i].sender : i \in 1..Len(data[r])} : r \in R}
        max_seq == [sd \in seen |-> Max(seqsOf(sd) \cup {0})]
        exp(sender) == ExpectedFromMaxSeq(IF sender \in seen THEN max_seq[sender] ELSE 0)
        pairs == {p \in senders \X R : ~SkipPair(p[1], p[2])}
        expected == [p \in pairs |-> exp(p[1])]
        received ==
            [p \in pairs |->
                Cardinality({data[p[2]][i].seq :
                                i \in {j \in 1..Len(data[p[2]]) :
                                          data[p[2]][j].sender = p[1]}})]
        count(r, label) ==
            Cardinality({i \in 1..Len(data[r]) : label \in BandsOf(data[r][i].rssi)})
    IN  [max_seq |-> max_seq,
         total_packets |-> SumOf([r \in R |-> Len(data[r])], R),
         rssi_dist |-> [label \in RssiLabels |->
                           SumOf([r \in R |-> count(r, label)], R)],
         rows |-> {[sender |-> p[1], receiver |-> p[2], expected |-> expected[p],
                    received |-> received[p]] : p \in pairs},
         total_expected |-> SumOf(expected, pairs),
         total_received |-> SumOf(received, pairs)]

(***************************************************************************)
(* The input files of the model                                            *)
(***************************************************************************)

\* "test dump" output saved to files, the input of analyze_test_log
DumpA ==
    "TESTLOG AAAA 3 3\nBBBB,0,1700000000,20,-90,1\nBBBB,2,1700000001,-8,-95,2\n"
      \o "AAAA,1,1700000002,40,-60,0\nTESTLOG_END\nBBBB,3,1700000003,20,-90,1\n"
DumpB ==
    "TESTLOG BBBB 3 2\r\nAAAA,0,1700000000,12,-80,1\r\nCCCC,4,1700000003,-20,-110,3\r\n"
DumpTwoIds ==
    "TESTLOG AAAA 3 1\nBBBB,1,1700000000,20,-90,1\nTESTLOG CCCC 5 1\n"
      \o "BBBB,2,1700000001,16,-91,1\n"
DumpBadField ==
    "TESTLOG BBBB 3 2\nAAAA,x,1700000000,12,-80,1\nAAAA,1,1700000001,12,-80,1\n"
DumpSevenFields ==
    "TESTLOG CCCC 2 2\nAAAA,0,100,200,5,-90,2\nAAAA,-1,1700000000,12,-80,1\n"
DumpNoHeader == "no header here\nBBBB,5,1700000000,20,-90,1\nTESTLOG AAAA\n"
DumpHeaderOnly == "TESTLOG CCCC 2 0\nTESTLOG_END\n"

\* a dump taken after BBBB had sent a packet more than its own dump (DumpB) says
DumpLater ==
    "TESTLOG DDDD 1 4\nBBBB,0,1700000000,20,-90,1\nBBBB,1,1700000001,20,-90,1\n"
      \o "BBBB,2,1700000002,20,-90,1\nBBBB,3,1700000003,20,-90,1\nTESTLOG_END\n"

DumpFiles ==
    {DumpA, DumpB, DumpTwoIds, DumpBadField, DumpSevenFields, DumpNoHeader,
     DumpHeaderOnly, DumpLater}

\* files written by MeshTestApp._export_log, the input of analyze_logs
CsvA ==
    "# MeshCore Network Test Log\n# Receiver Device ID: AAAA\n#\n"
      \o "sender_id,seq,tx_time,rx_time,delay_sec,snr,rssi,path_len\n"
      \o "BBBB,0,100,102,2,5,-90,1\nBBBB,2,110,111,1,-2,-95,2\nAAAA,1,0,0,0,10,-60,0\n"
CsvB ==
    "# Receiver Device ID: BBBB\nAAAA,0,100,101,1,3,-80,1\n\n"
      \o "CCCC,4,120,125,5,-5,-110,3\nCCCC,4,120,126,6,-5,-111,3\n"
CsvTwoIds ==
    "# Receiver Device ID: AAAA\nBBBB,1,100,101,1,5,-90,1\n"
      \o "# Receiver Device ID: CCCC\nBBBB,2,100,101,1,4,-91,1\n"
CsvBadField ==
    "# Receiver Device ID: BBBB\nAAAA,x,100,101,1,3,-80,1\nAAAA,1,100,101,1,3,-80,1\n"
CsvSevenFields ==
    "# Receiver Device ID: CCCC\nAAAA,0,100,200,5,-90,2\nAAAA,-1,100,101,1,3,-80,1\n"
      \o "AAAA,1,2,3,4,5\n"
CsvSameReceiver == "# Receiver Device ID: AAAA\nCCCC,7,100,101,1,5,-90,1\n"
CsvNoReceiver == "# exported\nBBBB,0,100,102,2,5,-90,1\n"
CsvHeaderOnly ==
    "# Receiver Device ID: CCCC\nsender_id,seq,tx_time,rx_time,delay_sec,snr,rssi,path_len\n"

CsvRssi ==
    "# Receiver Device ID: DDDD\nAAAA,0,1,2,1,5,-70,1\nAAAA,1,1,2,1,5,-71,1\n"
      \o "AAAA,2,1,2,1,5,-85,1\nAAAA,3,1,2,1,5,-86,1\nAAAA,4,1,2,1,5,-100,1\n"
      \o "AAAA,5,1,2,1,5,-101,1\nAAAA,6,1,2,1,5,-120,1\nAAAA,7,1,2,1,5,-121,1\n"
      \o "BBBB,0,1,2,1,5,-130,1\nBBBB,1,1,2,1,5,0,1\n"

CsvFiles ==
    {CsvA, CsvB, CsvTwoIds, CsvBadField, CsvSevenFields, CsvSameReceiver, CsvNoReceiver,
     CsvHeaderOnly, CsvRssi}

Source(kind, text) == [kind |-> kind, text |-> text]

SourcesOf(t) ==
    {Source("missing", ""), Source("unreadable", "")} \cup
    {Source("ok", f) : f \in IF t = "analyze_test_log" THEN DumpFiles ELSE CsvFiles}

\* the sequences of 1..n elements of S
SeqsUpTo(S, n) == UNION {[1..m -> S] : m \in 1..n}

BatchInit ==
    /\ tool \in {"analyze_test_log", "analyze_logs"}
    /\ argv \in SeqsUpTo(SourcesOf(tool), MaxSources)
    /\ idx = 1
    /\ pc = "load"
    /\ logs = <<>>
    /\ all_data = <<>>
    /\ all_senders = {}
    /\ warnings = {}
    /\ report = <<>>
    /\ results_csv = ""

\* analyze_test_log.main, one pass of "for filepath in sys.argv[1:]": a missing
\* file is warned about; any other file is opened and parsed with no handler
\* around it, so an exception ends the program with a traceback
LoadLogFile ==
    /\ tool = "analyze_test_log" /\ pc = "load" /\ idx <= Len(argv)
    /\ LET src == argv[idx]
           r == ParseLogFile(src.text)
       IN  IF src.kind = "missing"
           THEN /\ warnings' = warnings \cup {idx}
                /\ idx' = idx + 1
                /\ UNCHANGED <<pc, logs>>
           ELSE IF src.kind = "unreadable" \/ r.raised
           THEN /\ pc' = "crashed"
                /\ UNCHANGED <<idx, logs, warnings>>
           ELSE /\ logs' = Append(logs, [device_id |-> r.device_id,
                                         seq_num |-> r.seq_num,
                                         log_count |-> r.log_count,
                                         entries |-> r.entries,
                                         source_file |-> idx])
                /\ idx' = idx + 1
                /\ UNCHANGED <<pc, warnings>>
    /\ UNCHANGED <<tool, argv, all_data, all_senders, report, results_csv>>
    /\ UNCHANGED streamVars

\* analyze_logs.main, one pass of "for filename in sys.argv[1:]": any exception
\* of analyze_csv is caught and warned about; a file without receiver id is
\* dropped silently
LoadCsvFile ==
    /\ tool = "analyze_logs" /\ pc = "load" /\ idx <= Len(argv)
    /\ LET src == argv[idx]
           r == AnalyzeCsv(src.text)
       IN  IF src.kind # "ok" \/ r.raised
           THEN /\ warnings' = warnings \cup {idx}
                /\ UNCHANGED <<logs, all_data, all_senders>>
           ELSE /\ logs' = Append(logs, [receiver_id |-> r.receiver_id,
                                         entries |-> r.entries,
                                         source_file |-> idx])
                /\ IF r.receiver_id # ""
                   THEN /\ all_data' =
                              [x \in DOMAIN all_data \cup {r.receiver_id} |->
                                  IF x = r.receiver_id THEN r.entries ELSE all_data[x]]
                        /\ all_senders' =
                              all_senders \cup
                              {r.entries[i].sender : i \in 1..Len(r.entries)}
                   ELSE UNCHANGED <<all_data, all_senders>>
                /\ UNCHANGED warnings
    /\ idx' = idx + 1
    /\ UNCHANGED <<tool, argv, pc, report, results_csv>>
    /\ UNCHANGED streamVars

\* "if not logs" / "if not all_data"
NoValidInput ==
    IF tool = "analyze_test_log" THEN logs = <<>> ELSE DOMAIN all_data = {}

\* the loop is over and nothing was loaded: the error message and sys.exit(1)
ExitNoInput ==
    /\ pc = "load" /\ idx > Len(argv)
    /\ NoValidInput
    /\ pc' = "exit1"
    /\ UNCHANGED <<tool, argv, idx, logs, all_data, all_senders, warnings, report,
                   results_csv>>
    /\ UNCHANGED streamVars

\* the loop is over and something was loaded: the report is computed, and
\* analyze_test_log exports it to test_results.csv
Report ==
    /\ pc = "load" /\ idx > Len(argv)
    /\ ~NoValidInput
    /\ report' = IF tool = "analyze_test_log" THEN AnalyzeNetwork(logs)
                 ELSE AnalyzeLogsReport(all_data, all_senders)
    /\ results_csv' = IF tool = "analyze_test_log"
                      THEN ExportCsv(logs, AnalyzeNetwork(logs))
                      ELSE results_csv
    /\ pc' = "done"
    /\ UNCHANGED <<tool, argv, idx, logs, all_data, all_senders, warnings>>
    /\ UNCHANGED streamVars

\* the batch programs are not running
BatchIdle ==
    /\ tool = "" /\ argv = <<>> /\ idx = 0 /\ pc = "idle" /\ logs = <<>>
    /\ all_data = <<>> /\ all_senders = {} /\ warnings = {} /\ report = <<>>
    /\ results_csv = ""

\* the application is not running
StreamIdle == device_out = <<>> /\ AppInit

BatchStart == BatchInit /\ StreamIdle

BatchNext ==
    \/ LoadLogFile
    \/ LoadCsvFile
    \/ ExitNoInput
    \/ Report

SpecBatch == BatchStart /\ [][BatchNext]_vars

(***************************************************************************)
(* The three-device scenario: AAAA, BBBB and CCCC each send sequences 0..9. *)
(* BBBB logs 8 of the packets of AAAA (the two in missed are lost) and the  *)
(* 10 of CCCC; CCCC logs the 10 of AAAA and none of BBBB; AAAA logs none.   *)
(***************************************************************************)

\* the packets each device sends in the scenario
ScenarioSent == 10

\* the pairs of sequence numbers of AAAA that BBBB may have lost
ScenarioMissed == {{2, 5}, {0, 9}, {8, 9}}

\* what a receiver logged: pairs <<sender, seq>> in the order received
ScenarioRecords(receiver, missed) ==
    LET all == [i \in 1..ScenarioSent |-> i - 1]
        from(sender, seqs) == [i \in 1..Len(seqs) |-> <<sender, seqs[i]>>]
        kept(x) == x \notin missed
    IN  IF receiver = "BBBB"
        THEN from("AAAA", SelectSeq(all, kept)) \o from("CCCC", all)
        ELSE IF receiver = "CCCC" THEN from("AAAA", all)
        ELSE <<>>

\* the "test dump" output of a device, saved to a file
ScenarioDump(receiver, missed) ==
    LET recs == ScenarioRecords(receiver, missed)
    IN  "TESTLOG " \o receiver \o " " \o IntStr(ScenarioSent) \o " "
          \o IntStr(Len(recs)) \o "\n"
          \o Joined([i \in 1..Len(recs) |->
                        recs[i][1] \o "," \o IntStr(recs[i][2])
                          \o ",1700000000,20,-90,1\n"])
          \o "TESTLOG_END\n"

\* the file _export_log writes on a device after the dump
ScenarioCsv(receiver, missed) ==
    LET recs == ScenarioRecords(receiver, missed)
    IN  "# Receiver Device ID: " \o receiver \o "\n"
          \o "sender_id,seq,tx_time,rx_time,delay_sec,snr,rssi,path_len\n"
          \o Joined([i \in 1..Len(recs) |->
                        recs[i][1] \o "," \o IntStr(recs[i][2])
                          \o ",100,101,1,5,-90,1\n"])

\* the command lines of the scenario: the three files in any order
ScenarioArgv(t) ==
    {[i \in 1..3 |->
         Source("ok", IF t = "analyze_test_log" THEN ScenarioDump(order[i], missed)
                      ELSE ScenarioCsv(order[i], missed))] :
        order \in {o \in [1..3 -> {"AAAA", "BBBB", "CCCC"}] :
                      \A i, j \in 1..3 : i # j => o[i] # o[j]},
        missed \in ScenarioMissed}

ScenarioInit ==
    /\ tool \in {"analyze_test_log", "analyze_logs"}
    /\ argv \in ScenarioArgv(tool)
    /\ idx = 1
    /\ pc = "load"
    /\ logs = <<>>
    /\ all_data = <<>>
    /\ all_senders = {}
    /\ warnings = {}
    /\ report = <<>>
    /\ results_csv = ""
    /\ StreamIdle

ScenarioNext ==
    \/ LoadLogFile
    \/ LoadCsvFile
    \/ Report

SpecScenario == ScenarioInit /\ [][ScenarioNext]_vars

(***************************************************************************)
(* Device output.  SplitStreams: one stream cut into at most MaxBursts     *)
(* bursts at arbitrary positions.  SessionStreams: whole test sessions,    *)
(* in bursts that cut some lines in the middle.                            *)
(***************************************************************************)
SplitTexts ==
    {"AB12,3,1,2,5,-9,2\r\n\nCD3", "TESTLOG A\nAB12,3,1,2,-5,9,2\n"}

\* every way to cut text into at most k non-empty bursts
RECURSIVE Cuttings(_, _)
Cuttings(text, k) ==
    IF text = "" THEN {<<>>}
    ELSE IF k = 1 THEN {<<text>>}
    ELSE {<<text>>} \cup
         UNION {{<<SubSeq(text, 1, n)>> \o rest :
                    rest \in Cuttings(SubSeq(text, n + 1, Len(text)), k - 1)} :
                n \in 1..(Len(text) - 1)}

SplitStreams == UNION {Cuttings(t, MaxBursts) : t \in SplitTexts}

SessionStreams ==
    {<<"AB12,3,1,2,5,-9,2\nTEST", "LOG AB12 4 2\nCD34,0,1,", "2,-5,9,1\r\nTESTLOG_END\n">>,
     <<"TESTSTATUS AB12 seq=3 log=1\n\n ab12,1,1,1,1,1,1\n", "EF56,7,0,0,1,-1,0\nAB12,8,",
       "0,0,1,-1,0\n">>,
     <<"freq: 915.0\nAB12,1,2,3\nTESTLOG_END\nAB12,0,1,1,2,-3,1\nCD", "34,1,1,1,2,-3,0">>}

SessionInit == device_out \in SessionStreams /\ AppInit /\ BatchIdle

SessionNext ==
    \/ Connect
    \/ DeviceWrite
    \/ Disconnect
    \/ ReadLoop
    \/ UpdateSerialGet
    \/ UpdateSerialEmpty
    \/ CmdLogDump
    \/ OnClosing

Spec == SessionInit /\ [][SessionNext]_vars

SplitInit == device_out \in SplitStreams /\ AppInit /\ BatchIdle

SplitNext ==
    \/ Connect
    \/ DeviceWrite
    \/ ReadLoop
    \/ UpdateSerialGet
    \/ UpdateSerialEmpty

SpecSplit == SplitInit /\ [][SplitNext]_vars

\* a device that never stops writing: whenever the port has nothing waiting,
\* its next line arrives
LiveBurst == "\r\n"

DeviceStream ==
    /\ serial_open
    /\ in_waiting = ""
    /\ in_waiting' = LiveBurst
    /\ UNCHANGED <<device_out, read_queue, running, serial_open, line_buffer,
                   test_logs, info_id, updating, closed, events, chunks, log_buffer,
                   exported, origin>>
    /\ UNCHANGED batchVars

LiveInit == device_out = <<>> /\ AppInit /\ BatchIdle

LiveNext ==
    \/ Connect
    \/ Disconnect
    \/ DeviceStream
    \/ ReadLoop
    \/ UpdateSerialGet
    \/ UpdateSerialEmpty

\* the reader thread and the Tk event loop keep running, and so does the device
SpecLive ==
    /\ LiveInit
    /\ [][LiveNext]_vars
    /\ WF_vars(DeviceStream)
    /\ WF_vars(ReadLoop)
    /\ WF_vars(UpdateSerialGet)
    /\ WF_vars(UpdateSerialEmpty)

\* sessions during which the Export button is pressed
ExportStreams ==
    {<<"TESTSTATUS AB12 seq=3 log=1\nCD34,3,1,2,5,-9,2\nEF", "56,0,7,9,-5,-120,1\n">>,
     <<"CD34,12,5,3,-7,-101,0\r\n", "CD34,12,5,3,-7,-101,0\r\n">>}

ExportInit == device_out \in ExportStreams /\ AppInit /\ BatchIdle

ExportNext ==
    \/ Connect
    \/ DeviceWrite
    \/ ReadLoop
    \/ UpdateSerialGet
    \/ UpdateSerialEmpty
    \/ ExportLog

SpecExport == ExportInit /\ [][ExportNext]_vars

(***************************************************************************)
(* Properties of the streaming application                                 *)
(***************************************************************************)

\* the texts of the line events of a history, in order
RECURSIVE LineTexts(_)
LineTexts(ev) ==
    IF ev = <<>> THEN <<>>
    ELSE IF Head(ev).kind = "line" THEN <<Head(ev).text>> \o LineTexts(Tail(ev))
    ELSE LineTexts(Tail(ev))

\* the application state a freshly constructed MeshTestApp reaches when the whole
\* text consumed so far is delivered to _update_serial as one chunk
AsOneChunk ==
    Ingest("", [test_logs |-> <<>>, info_id |-> "--"], Joined(chunks))

\* C1: however the stream was cut into chunks, the lines handed to _parse_line,
\* the entries of test_logs and the text left in line_buffer are those of the same
\* stream delivered as a single chunk; line_buffer holds only the unterminated tail.
C1_ChunkingIndependent ==
    /\ LineTexts(events) = AsOneChunk.lines
    /\ test_logs = AsOneChunk.st.test_logs
    /\ info_id = AsOneChunk.st.info_id
    /\ line_buffer = AsOneChunk.buf
    /\ ~Contains(line_buffer, "\n")

\* C1 witness: a record line arrived cut over three chunks (none of the first two
\* ends it), was parsed into test_logs, and an unterminated tail is left
C1_Witness ==
    /\ Len(chunks) = 3
    /\ ~Contains(chunks[1] \o chunks[2], "\n")
    /\ Len(test_logs) = 1
    /\ test_logs[1].device_id = "AB12"
    /\ line_buffer = "CD3"

IsRecordLine(text) == FullMatch(EntryPattern, Strip(text))

\* a dump start in a history: a Dump command, or a parsed line that begins with
\* "TESTLOG " (and is not the end sentinel)
IsBoundary(e) == e.kind = "dump" \/ (e.kind = "line" /\ IsDumpStart(Strip(e.text)))

LastBoundary(ev) == Max({0} \cup {i \in 1..Len(ev) : IsBoundary(ev[i])})

\* the entries of the record lines of ev after position b, in order
RECURSIVE RecordsAfter(_, _)
RecordsAfter(ev, b) ==
    IF b >= Len(ev) THEN <<>>
    ELSE LET e == ev[b + 1]
         IN  (IF e.kind = "line" /\ IsRecordLine(e.text)
              THEN <<EntryOf(Strip(e.text))>> ELSE <<>>)
             \o RecordsAfter(ev, b + 1)

\* C7: test_logs holds exactly the entries of the record lines handed to
\* _parse_line after the most recent dump start (a "TESTLOG " line or a Dump
\* command), in arrival order.
C7_LogsSinceDumpStart == test_logs = RecordsAfter(events, LastBoundary(events))

\* C7 witness: a record was collected, then a "TESTLOG " header and later a Dump
\* command started new dumps, and a record that arrived after the last of them
\* is the only one held
C7_Witness ==
    /\ \E i, j, k, l \in 1..Len(events) :
         /\ i < j /\ j < k /\ k < l
         /\ events[i].kind = "line" /\ IsRecordLine(events[i].text)
         /\ events[j].kind = "line" /\ IsBoundary(events[j])
         /\ events[k].kind = "dump"
         /\ events[l].kind = "line" /\ IsRecordLine(events[l].text)
    /\ Len(test_logs) = 1

\* C8: once the session is torn down (on_closing), the reader has stopped and no
\* complete line that was read from the port is left unparsed in read_queue or
\* line_buffer.
C8_ClosedMeansFlushed ==
    closed => (~running /\ ~Contains(line_buffer \o Joined(read_queue), "\n"))

\* C12: two runs of _export_log with nothing observed in between (no chunk
\* consumed, no command, no connect or disconnect: log_buffer grew by the two
\* messages of the first run only) write the same CSV file and the same raw log,
\* the clock digits aside.
C12_ExportPure ==
    \A i \in 1..(Len(exported) - 1) :
        (/\ exported[i + 1].chunks_at = exported[i].chunks_at
         /\ exported[i + 1].events_at = exported[i].events_at
         /\ exported[i + 1].log_len = exported[i].log_len + 2)
            => /\ exported[i + 1].csv = exported[i].csv
               /\ exported[i + 1].raw = exported[i].raw

\* the whole text of each session of ExportStreams
StreamTexts == {Joined(st) : st \in ExportStreams}

\* C17: the text of the device passes from the port through read_queue to the
\* consumer in the order it was written (what was consumed, what is queued, what
\* waits in the port and what is still to come make up the stream, in this
\* order); test_logs holds the records in the order of the text; and a step of
\* the reader (read_queue grows) changes neither line_buffer nor test_logs.
C17_ReaderOnlyEnqueues ==
    /\ [](Joined(chunks) \o Joined(read_queue) \o in_waiting \o Joined(device_out)
            \in StreamTexts)
    /\ [](test_logs = AsOneChunk.st.test_logs)
    /\ [][Len(read_queue') > Len(read_queue)
            => UNCHANGED <<line_buffer, test_logs, info_id, log_buffer, events, chunks>>]_vars

\* C17 witness: two chunks went through the queue, the second record was cut by
\* the chunk boundary, and the two records are held in the order of the text
C17_Witness ==
    /\ Len(chunks) = 2
    /\ ~Contains(SubSeq(chunks[1], Len(chunks[1]) - 1, Len(chunks[1])), "\n")
    /\ Len(test_logs) = 2
    /\ test_logs[1].device_id = "CD34"
    /\ test_logs[2].device_id = "EF56"

\* for the chunks consumed from position i on: the connections whose text makes
\* up each line handed to _parse_line, in order; cur holds the connections of
\* the text waiting in line_buffer
RECURSIVE LineOrigins(_, _)
LineOrigins(i, cur) ==
    IF i > Len(chunks) THEN <<>>
    ELSE LET parts == SplitOn(chunks[i], "\n")
             n == Len(parts)
             first == IF parts[1] = "" THEN cur ELSE cur \cup {origin[i]}
         IN  IF n = 1 THEN LineOrigins(i + 1, first)
             ELSE <<first>> \o [k \in 1..(n - 2) |-> {origin[i]}]
                    \o LineOrigins(i + 1, IF parts[n] = "" THEN {} ELSE {origin[i]})

\* C21: every line handed to _parse_line is made of text received in a single
\* connection: what line_buffer held when a connection was closed is not joined
\* to text of the next connection.
C21_LinesOfOneSession ==
    LET lo == LineOrigins(1, {})
    IN  /\ Len(lo) = Len(LineTexts(events))
        /\ \A k \in 1..Len(lo) : Cardinality(lo[k]) <= 1

\* C16: every invocation of _update_serial terminates, whatever the reader
\* thread does in the meantime: once inside the drain loop, the handler reaches
\* the empty-queue exit (where it re-schedules itself).
C16_UpdateSerialTerminates == updating ~> ~updating

(***************************************************************************)
(* Properties of the batch analysers                                       *)
(***************************************************************************)

\* r"^([A-F0-9]{4}),(\d+),(\d+),(-?\d+),(-?\d+),(\d+)$": a valid 6-field line
Entry6Pattern ==
    <<One(HexUpper), One(HexUpper), One(HexUpper), One(HexUpper), One({","}),
      Plus(Digits), One({","}), Plus(Digits), One({","}), Opt({"-"}),
      Plus(Digits), One({","}), Opt({"-"}), Plus(Digits), One({","}),
      Plus(Digits)>>

\* a valid 8-column row of an exported file (the 7 fields plus delay_sec)
Entry8Pattern ==
    <<One(HexUpper), One(HexUpper), One(HexUpper), One(HexUpper), One({","}),
      Plus(Digits), One({","}), Plus(Digits), One({","}), Plus(Digits),
      One({","}), Opt({"-"}), Plus(Digits), One({","}), Opt({"-"}),
      Plus(Digits), One({","}), Opt({"-"}), Plus(Digits), One({","}),
      Plus(Digits)>>

\* the stripped lines of a file that the reader of the running tool gets to:
\* parse_log_file stops at the first TESTLOG_END line
RECURSIVE UpToEnd(_)
UpToEnd(lines) ==
    IF lines = <<>> \/ StartsWith(Head(lines), "TESTLOG_END") THEN <<>>
    ELSE <<Head(lines)>> \o UpToEnd(Tail(lines))

StrippedLines(text) ==
    LET ls == FileLines(text) IN [i \in 1..Len(ls) |-> Strip(ls[i])]

LinesRead(text) ==
    IF tool = "analyze_test_log" THEN UpToEnd(StrippedLines(text))
    ELSE StrippedLines(text)

\* the text of the file a loaded log came from
TextOf(log) == argv[log.source_file].text

SenderOf(e) == IF tool = "analyze_test_log" THEN e.sender_id ELSE e.sender

ReceiverOf(log) == IF tool = "analyze_test_log" THEN log.device_id ELSE log.receiver_id

\* snr as a fraction <<numerator, denominator>>, whichever tool parsed it
SnrOf(e) == IF tool = "analyze_test_log" THEN e.snr ELSE <<e.snr, 1>>

SameValue(a, b) == a[1] * b[2] = b[1] * a[2]

\* log holds an entry for the record line with fields f, with SNR snr
HasEntry(log, f, snr) ==
    \E i \in 1..Len(log.entries) :
        /\ SenderOf(log.entries[i]) = f[1]
        /\ log.entries[i].seq = IntVal(f[2])
        /\ SameValue(SnrOf(log.entries[i]), snr)

\* C2: a valid 6-field line is parsed with SNR = field 4 / 4.0, a valid 7-field
\* line with SNR = field 5 unchanged: the grammar follows the field count.
C2_SnrByFieldCount ==
    \A k \in 1..Len(logs) :
        LET ls == LinesRead(TextOf(logs[k]))
        IN  \A i \in 1..Len(ls) :
                LET f == SplitOn(ls[i], ",")
                IN  /\ (tool = "analyze_test_log" /\ FullMatch(Entry6Pattern, ls[i]))
                         => HasEntry(logs[k], f, <<IntVal(f[4]), 4>>)
                    /\ FullMatch(EntryPattern, ls[i])
                         => HasEntry(logs[k], f, <<IntVal(f[5]), 1>>)

\* C3: a malformed line never raises and never costs the rest of its file: the
\* program does not end with a traceback on a readable file, no readable file is
\* given up with a warning, and no record has a negative sequence number.
C3_MalformedLineSkipped ==
    /\ (pc = "crashed" => argv[idx].kind # "ok")
    /\ \A k \in warnings : argv[k].kind # "ok"
    /\ \A k \in 1..Len(logs) :
           \A i \in 1..Len(logs[k].entries) : logs[k].entries[i].seq >= 0

\* the well-formed record lines of a file, for the reader of the running tool
IsRecordFor(line) ==
    IF tool = "analyze_test_log"
    THEN FullMatch(Entry6Pattern, line) /\ Len(line) > 20
    ELSE FullMatch(Entry8Pattern, line)

\* every loaded file holds only well-formed record lines besides its headers
\* and comments
CleanInputs ==
    \A k \in 1..Len(logs) :
        LET ls == LinesRead(TextOf(logs[k]))
        IN  \A i \in 1..Len(ls) :
                (/\ Contains(ls[i], ",")
                 /\ ~StartsWith(ls[i], "#")
                 /\ ~StartsWith(ls[i], "sender_id,"))
                    => IsRecordFor(ls[i])

\* the senders of the records of the files loaded
SendersSeen ==
    UNION {{SenderOf(logs[k].entries[i]) : i \in 1..Len(logs[k].entries)} :
              k \in 1..Len(logs)}

\* the largest sequence number seen for a sender across all the files loaded
MaxSeqSeen(sender) ==
    Max(UNION {{logs[k].entries[i].seq :
                   i \in {j \in 1..Len(logs[k].entries) :
                             SenderOf(logs[k].entries[j]) = sender}} :
                  k \in 1..Len(logs)})

\* a "TESTLOG" header declares the send count of this device
HeaderDeclares(sender) ==
    /\ tool = "analyze_test_log"
    /\ \E k \in 1..Len(logs) : logs[k].device_id = sender

\* the expected count the loss computation uses for a sender
ExpectedOf(sender) ==
    IF tool = "analyze_test_log"
    THEN IF sender \in DOMAIN report.total_sent THEN report.total_sent[sender] ELSE 0
    ELSE (IF sender \in DOMAIN report.max_seq THEN report.max_seq[sender] ELSE 0) + 1

\* C4: every sender with an observed record has expected >= 1, and expected =
\* max sequence seen + 1 when no header declares its send count (stated for runs
\* on well-formed files).
C4_ExpectedFromMaxSeq ==
    (pc = "done" /\ CleanInputs) =>
        \A sd \in SendersSeen :
            /\ ExpectedOf(sd) >= 1
            /\ ~HeaderDeclares(sd) => ExpectedOf(sd) = MaxSeqSeen(sd) + 1

\* the records of the loaded files whose sender is not the file's receiver
NonSelfRecords ==
    SumOf([k \in 1..Len(logs) |->
              Cardinality({i \in 1..Len(logs[k].entries) :
                              SenderOf(logs[k].entries[i]) # ReceiverOf(logs[k])})],
          1..Len(logs))

HeaderIds(text) ==
    LET ls == LinesRead(text)
        raw == FileLines(text)
        isHeader(i) ==
            IF tool = "analyze_test_log"
            THEN StartsWith(ls[i], "TESTLOG ") /\ Len(SplitWs(ls[i])) >= 4
            ELSE StartsWith(raw[i], "# Receiver Device ID:")
        idOf(i) ==
            IF tool = "analyze_test_log" THEN SplitWs(ls[i])[2]
            ELSE Strip(SubSeq(raw[i], Len("# Receiver Device ID:") + 1, Len(raw[i])))
        RECURSIVE from(_)
        from(i) ==
            IF i > Len(ls) THEN <<>>
            ELSE (IF isHeader(i) THEN <<idOf(i)>> ELSE <<>>) \o from(i + 1)
    IN  from(1)

\* every well-formed record line of the file has its entry in the log
AllRecordsParsed(log) ==
    LET ls == LinesRead(TextOf(log))
    IN  \A i \in 1..Len(ls) :
            IsRecordFor(ls[i]) =>
                \E j \in 1..Len(log.entries) :
                    /\ SenderOf(log.entries[j]) = SplitOn(ls[i], ",")[1]
                    /\ log.entries[j].seq = IntVal(SplitOn(ls[i], ",")[2])

\* C6 as stated: the receiver id returned for a file is the first id its header
\* lines declare.
C6_FirstIdWins ==
    \A k \in 1..Len(logs) :
        LET ids == HeaderIds(TextOf(logs[k]))
        IN  ids # <<>> => ReceiverOf(logs[k]) = ids[1]

\* C6 as amended: the receiver id returned for a file is the last id its header
\* lines declare (None without any), and the record lines after a later header
\* are still parsed.
C6_LastIdWins ==
    \A k \in 1..Len(logs) :
        LET ids == HeaderIds(TextOf(logs[k]))
        IN  /\ ReceiverOf(logs[k]) = (IF ids = <<>> THEN "" ELSE ids[Len(ids)])
            /\ AllRecordsParsed(logs[k])

\* C6 witness: a loaded file whose two header lines declare different ids, with
\* a record line after the second
C6_Witness ==
    \E k \in 1..Len(logs) :
        LET ids == HeaderIds(TextOf(logs[k]))
        IN  /\ Len(ids) = 2 /\ ids[1] # ids[2]
            /\ ReceiverOf(logs[k]) = ids[2]
            /\ Len(logs[k].entries) = 2

\* C9: a device with no header in any log that is the sender of a record is in
\* the device set and is a sender of the loss computation, with expected = its
\* max sequence number + 1 (stated for runs on well-formed files).
C9_HeaderlessSenderCounted ==
    (pc = "done" /\ tool = "analyze_test_log" /\ CleanInputs) =>
        \A sd \in SendersSeen :
            ~HeaderDeclares(sd) =>
                /\ sd \in report.all_devices
                /\ \A rc \in report.all_devices \ {sd} :
                       \E r \in report.rows :
                           /\ r.sender = sd /\ r.receiver = rc
                           /\ r.expected = MaxSeqSeen(sd) + 1

\* C10: a source that cannot be opened or read gets its warning and the loop goes
\* on to the next source; it never ends the run.
C10_UnreadableSourceSkipped ==
    \A k \in 1..Len(argv) :
        argv[k].kind # "ok" =>
            /\ (k < idx => k \in warnings)
            /\ ~(pc = "crashed" /\ idx = k)

\* the run is over: the report was produced, or the program exited with the
\* "no valid input" error, or it ended with a traceback
Ended == pc \in {"done", "exit1", "crashed"}

\* the number of records parsed from the files loaded
RecordsParsed ==
    SumOf([k \in 1..Len(logs) |-> Len(logs[k].entries)], 1..Len(logs))

\* C11: a run ends with the "no valid input" error exactly when none of its
\* sources was readable; a run with a readable source and no record parsed ends
\* with a report whose received counts are all zero.
C11_FatalIffNoReadableSource ==
    Ended =>
        /\ pc = "exit1" <=> (\A k \in 1..Len(argv) : argv[k].kind # "ok")
        /\ (pc = "done" /\ RecordsParsed = 0) =>
               /\ report.total_received = 0
               /\ \A r \in report.rows : r.received = 0

\* the report has the row sender -> receiver with these counts
HasRow(sender, receiver, received, expected) ==
    \E r \in report.rows :
        /\ r.sender = sender /\ r.receiver = receiver
        /\ r.received = received /\ r.expected = expected

\* the loss rate of a row is pct percent: (1 - received / expected) * 100
LossIs(sender, receiver, pct) ==
    \E r \in report.rows :
        /\ r.sender = sender /\ r.receiver = receiver
        /\ r.expected > 0
        /\ (r.expected - r.received) * 100 = pct * r.expected

\* C13 as stated: in the three-device scenario the report gives AAAA->BBBB 20%
\* (8/10), AAAA->CCCC 0% (10/10) and CCCC->BBBB 100% (0/10).
C13_ScenarioAsStated ==
    pc = "done" =>
        /\ HasRow("AAAA", "BBBB", 8, 10) /\ LossIs("AAAA", "BBBB", 20)
        /\ HasRow("AAAA", "CCCC", 10, 10) /\ LossIs("AAAA", "CCCC", 0)
        /\ HasRow("CCCC", "BBBB", 0, 10) /\ LossIs("CCCC", "BBBB", 100)

\* C13 as amended: the report gives AAAA->BBBB 20% (8/10), AAAA->CCCC 0% (10/10)
\* and CCCC->BBBB 0% (10/10: BBBB logged the 10 packets of CCCC).  The link with
\* 0 of 10 is BBBB->CCCC: analyze_test_log reports it as 100% from the header of
\* BBBB, analyze_logs has no row for it as BBBB is the sender of no record.
C13_ScenarioReport ==
    pc = "done" =>
        /\ HasRow("AAAA", "BBBB", 8, 10) /\ LossIs("AAAA", "BBBB", 20)
        /\ HasRow("AAAA", "CCCC", 10, 10) /\ LossIs("AAAA", "CCCC", 0)
        /\ HasRow("CCCC", "BBBB", 10, 10) /\ LossIs("CCCC", "BBBB", 0)
        /\ IF tool = "analyze_test_log"
           THEN HasRow("BBBB", "CCCC", 0, 10) /\ LossIs("BBBB", "CCCC", 100)
           ELSE \A r \in report.rows : r.sender # "BBBB"

\* C13 witness: the three files of the scenario were loaded by analyze_logs, the
\* log of BBBB last, the report is computed and BBBB got 8 packets of AAAA
C13_Witness ==
    /\ pc = "done" /\ tool = "analyze_logs"
    /\ Len(logs) = 3 /\ logs[3].receiver_id = "BBBB"
    /\ Len(logs[3].entries) = 18
    /\ DOMAIN all_data = {"AAAA", "BBBB", "CCCC"}
    /\ HasRow("AAAA", "BBBB", 8, 10)

\* the accepted records with this sender in the log of this receiver: for
\* analyze_test_log the files whose header names the receiver, for analyze_logs
\* the entries all_data holds for it
RecordsFrom(sender, receiver) ==
    IF tool = "analyze_test_log"
    THEN SumOf([k \in 1..Len(logs) |->
                   IF logs[k].device_id = receiver
                   THEN Cardinality({i \in 1..Len(logs[k].entries) :
                                        logs[k].entries[i].sender_id = sender})
                   ELSE 0], 1..Len(logs))
    ELSE Cardinality({i \in 1..Len(all_data[receiver]) :
                         all_data[receiver][i].sender = sender})

\* C14: the received count of every pair of the loss computation is the number
\* of accepted records with that sender in that receiver's log, a record that
\* repeats a sequence number counting like any other.
C14_ReceivedCountsRecords ==
    pc = "done" =>
        \A r \in report.rows : r.received = RecordsFrom(r.sender, r.receiver)

\* the records of all the loaded files, in the order export_csv writes them
RECURSIVE AllEntries(_)
AllEntries(ls) == IF ls = <<>> THEN <<>> ELSE Head(ls).entries \o AllEntries(Tail(ls))

\* the file _export_log wrote, read by analyze_csv, gives the receiver and the
\* records of test_logs, in order
CsvReingested(x) ==
    LET r == AnalyzeCsv(x.csv)
        tl == x.test_logs
    IN  /\ ~r.raised
        /\ r.receiver_id = x.receiver_id
        /\ Len(r.entries) = Len(tl)
        /\ \A j \in 1..Len(tl) :
               /\ r.entries[j].sender = tl[j].device_id
               /\ r.entries[j].seq = IntVal(tl[j].seq)
               /\ r.entries[j].snr = IntVal(tl[j].snr)
               /\ r.entries[j].rssi = IntVal(tl[j].rssi)
               /\ r.entries[j].path_len = IntVal(tl[j].path_len)

\* the file export_csv wrote, read by parse_log_file, gives the records of the
\* loaded files, in order
ResultsReingested ==
    LET r == ParseLogFile(results_csv)
        es == AllEntries(logs)
    IN  /\ ~r.raised
        /\ Len(r.entries) = Len(es)
        /\ \A j \in 1..Len(es) :
               /\ r.entries[j].sender_id = es[j].sender_id
               /\ r.entries[j].seq = es[j].seq
               /\ SameValue(r.entries[j].snr, es[j].snr)
               /\ r.entries[j].rssi = es[j].rssi
               /\ r.entries[j].path_len = es[j].path_len

\* C15: the file written by _export_log is read back by analyze_csv, and the
\* file written by export_csv by parse_log_file, without error and with one
\* record per exported record, in order, with the same fields.
C15_ExportReingested ==
    /\ \A i \in 1..Len(exported) : exported[i].csv # "" => CsvReingested(exported[i])
    /\ (pc = "done" /\ tool = "analyze_test_log") => ResultsReingested

\* the RSSI values of the records analyze_logs holds, one per record
HeldRssi ==
    UNION {{<<r, i, all_data[r][i].rssi>> : i \in 1..Len(all_data[r])} :
              r \in DOMAIN all_data}

InBand(lo, hi) == Cardinality({x \in HeldRssi : lo <= x[3] /\ x[3] < hi})

\* C18: a record is counted in the first band whose threshold it reaches:
\* excellent from -70, good from -85, fair from -100, poor from -120, none below
\* -120; the band counts add up to the records less those below -120.
C18_RssiBands ==
    (pc = "done" /\ tool = "analyze_logs") =>
        /\ report.rssi_dist["excellent"] = Cardinality({x \in HeldRssi : x[3] >= -70})
        /\ report.rssi_dist["good"] = InBand(-85, -70)
        /\ report.rssi_dist["fair"] = InBand(-100, -85)
        /\ report.rssi_dist["poor"] = InBand(-120, -100)
        /\ SumOf(report.rssi_dist, RssiLabels) =
              report.total_packets - Cardinality({x \in HeldRssi : x[3] < -120})
        /\ report.total_packets = Cardinality(HeldRssi)

\* C18 witness: the report counts records in each of the four bands, at the
\* thresholds and just below them, and holds records below -120
C18_Witness ==
    /\ pc = "done" /\ tool = "analyze_logs"
    /\ \A t \in {-70, -71, -85, -86, -100, -101, -120, -121} :
           \E x \in HeldRssi : x[3] = t
    /\ \A label \in RssiLabels : report.rssi_dist[label] >= 2
    /\ SumOf(report.rssi_dist, RssiLabels) < report.total_packets

\* no record of a loaded file has a negative sequence number
SeqsNonNegative ==
    \A k \in 1..Len(logs) :
        \A i \in 1..Len(logs[k].entries) : logs[k].entries[i].seq >= 0

\* C19: with non-negative sequence numbers, every pair of the loss computation
\* has 0 <= received <= expected, and so have the totals: every loss rate lies
\* in [0, 100].
C19_ReceivedWithinExpected ==
    (pc = "done" /\ SeqsNonNegative) =>
        /\ \A r \in report.rows : 0 <= r.received /\ r.received <= r.expected
        /\ 0 <= report.total_received
        /\ report.total_received <= report.total_expected

\* the senders of the records all_data holds
HeldSenders ==
    UNION {{all_data[r][i].sender : i \in 1..Len(all_data[r])} : r \in DOMAIN all_data}

\* C20: in analyze_logs.main the records of every file loaded with a receiver
\* id are held in all_data under that id, those of two files with the same id
\* together, and all_senders has only senders of records held.
C20_AllLoadedRecordsKept ==
    tool = "analyze_logs" =>
        /\ \A r \in DOMAIN all_data :
               Len(all_data[r]) =
                   SumOf([k \in 1..Len(logs) |->
                             IF logs[k].receiver_id = r THEN Len(logs[k].entries) ELSE 0],
                         1..Len(logs))
        /\ all_senders \subseteq HeldSenders

====
